---- MODULE Spec2Model ----
(***************************************************************************)
(* Model of src/components/BatchJob.tsx: the batch matcher component.      *)
(* Filenames and match keys are sequences of one-character strings, raw    *)
(* rule patterns are the strings the regex editor holds, and a compiled    *)
(* rule is the syntax tree that `new RegExp(p, 'gi')` builds for it.       *)
(***************************************************************************)
EXTENDS Integers, Sequences, FiniteSets, TLC

(***************************************************************************)
(* Characters.                                                             *)
(***************************************************************************)
Upper == <<"A","B","C","D","E","F","G","H","I","J","K","L","M",
           "N","O","P","Q","R","S","T","U","V","W","X","Y","Z">>
Lower == <<"a","b","c","d","e","f","g","h","i","j","k","l","m",
           "n","o","p","q","r","s","t","u","v","w","x","y","z">>

\* String.prototype.toLowerCase on one character.
LowerChar(c) ==
    IF \E k \in 1..Len(Upper) : Upper[k] = c
    THEN Lower[CHOOSE k \in 1..Len(Upper) : Upper[k] = c]
    ELSE c

\* String.prototype.toLowerCase.
toLowerCase(s) == [k \in 1..Len(s) |-> LowerChar(s[k])]

\* White space as String.prototype.trim and the regex class \s see it.
WhiteSpace == {" ", "\t"}

RECURSIVE TrimStart(_)
TrimStart(s) ==
    IF s # <<>> /\ Head(s) \in WhiteSpace THEN TrimStart(Tail(s)) ELSE s

RECURSIVE TrimEnd(_)
TrimEnd(s) ==
    IF s # <<>> /\ s[Len(s)] \in WhiteSpace
    THEN TrimEnd(SubSeq(s, 1, Len(s) - 1))
    ELSE s

\* String.prototype.trim.
trim(s) == TrimEnd(TrimStart(s))

\* s.endsWith(ext)
endsWith(s, ext) ==
    /\ Len(ext) <= Len(s)
    /\ SubSeq(s, Len(s) - Len(ext) + 1, Len(s)) = ext

(***************************************************************************)
(* Regular expressions: the syntax trees of the patterns, and matching     *)
(* with the backtracking priority of RegExp.prototype.exec.  A node is     *)
(*   [t |-> "cls", neg, cs]   one character in (not in) the set cs         *)
(*   [t |-> "any"]            `.`: any character but a line terminator     *)
(*   [t |-> "eos"]            `$` without the m flag: end of input         *)
(*   [t |-> "cat", parts]     concatenation                                *)
(*   [t |-> "alt", opts]      alternation, leftmost alternative first      *)
(*   [t |-> "rep", min, greedy, body]   body{min,} greedy or lazy          *)
(***************************************************************************)
Cls(cs)      == [t |-> "cls", neg |-> FALSE, cs |-> cs]
NotCls(cs)   == [t |-> "cls", neg |-> TRUE, cs |-> cs]
Lit(c)       == Cls({c})
AnyChar      == [t |-> "any"]
Eos          == [t |-> "eos"]
Cat(parts)   == [t |-> "cat", parts |-> parts]
Alt(opts)    == [t |-> "alt", opts |-> opts]
Rep(m, g, b) == [t |-> "rep", min |-> m, greedy |-> g, body |-> b]
\* A literal word: the concatenation of its characters.
Word(w)      == Cat([k \in 1..Len(w) |-> Lit(w[k])])

LineTerminators == {"\n", "\r"}

\* One character against a class under the i flag (case-insensitive).
ClsMatches(n, c) ==
    (\E x \in n.cs : LowerChar(x) = LowerChar(c)) # n.neg

RECURSIVE FlatSeq(_)
FlatSeq(ss) == IF ss = <<>> THEN <<>> ELSE Head(ss) \o FlatSeq(Tail(ss))

\* Ends("node", n, 0, s, i): the positions at which a match of node n that
\* starts at position i of s can end, in the order backtracking tries them.
\* Ends("cat", parts, k, s, i): the same for parts[k], parts[k+1], ... in
\* sequence; Ends("rep", n, need, s, i): the same for the repetition n with
\* `need` iterations still required.
RECURSIVE Ends(_, _, _, _, _)
Ends(what, n, k, s, i) ==
    CASE what = "cat" ->
           IF k > Len(n) THEN <<i>>
           ELSE LET first == Ends("node", n[k], 0, s, i)
                IN  FlatSeq([j \in 1..Len(first) |-> Ends("cat", n, k + 1, s, first[j])])
      [] what = "rep" ->
           LET once == SelectSeq(Ends("node", n.body, 0, s, i), LAMBDA e : e > i)
               more == FlatSeq([j \in 1..Len(once) |->
                          Ends("rep", n, IF k > 0 THEN k - 1 ELSE 0, s, once[j])])
               stop == IF k = 0 THEN <<i>> ELSE <<>>
           IN  IF n.greedy THEN more \o stop ELSE stop \o more
      [] what = "node" ->
           CASE n.t = "cls" ->
                  IF i <= Len(s) /\ ClsMatches(n, s[i]) THEN <<i + 1>> ELSE <<>>
             [] n.t = "any" ->
                  IF i <= Len(s) /\ s[i] \notin LineTerminators THEN <<i + 1>> ELSE <<>>
             [] n.t = "eos" -> IF i = Len(s) + 1 THEN <<i>> ELSE <<>>
             [] n.t = "cat" -> Ends("cat", n.parts, 1, s, i)
             [] n.t = "alt" ->
                  FlatSeq([j \in 1..Len(n.opts) |-> Ends("node", n.opts[j], 0, s, i)])
             [] n.t = "rep" -> Ends("rep", n, n.min, s, i)

MatchEnds(n, s, i) == Ends("node", n, 0, s, i)

\* RegExp.prototype.exec from position `from`: the leftmost start that has a
\* match, with the end backtracking finds first; <<>> when nothing matches.
RECURSIVE RegExpExec(_, _, _)
RegExpExec(re, s, from) ==
    IF from > Len(s) + 1 THEN <<>>
    ELSE LET ends == MatchEnds(re, s, from)
         IN  IF ends # <<>> THEN <<from, ends[1]>>
             ELSE RegExpExec(re, s, from + 1)

\* The search of s.replace(re, '') for a global regex: every match removed,
\* the search resuming at the end of the match (one further after an empty
\* match); `copy` is the first position not yet copied or removed.
RECURSIVE ReplaceFrom(_, _, _, _)
ReplaceFrom(tree, s, search, copy) ==
    LET m == RegExpExec(tree, s, search)
    IN  IF m = <<>> THEN SubSeq(s, copy, Len(s))
        ELSE SubSeq(s, copy, m[1] - 1)
             \o ReplaceFrom(tree, s, IF m[2] = m[1] THEN m[2] + 1 ELSE m[2], m[2])

(***************************************************************************)
(* The rules.                                                              *)
(***************************************************************************)
\* A string literal of the source as the sequence of its characters.
Ext_mkv == <<".", "m", "k", "v">>
Ext_mp4 == <<".", "m", "p", "4">>
Ext_avi == <<".", "a", "v", "i">>
Ext_mov == <<".", "m", "o", "v">>
Ext_m4v == <<".", "m", "4", "v">>

DEFAULT_PATTERNS ==
    << "\\.[^.]+$",
       "\\[.*?\\]",
       "(1080p|720p|4k)",
       "(ptbr|eng|jap|jp)",
       "[-_.\\s]" >>

\* What the user types into a rule input: the empty string, or an unbalanced
\* parenthesis, which is no regular expression.
TypedPatterns == {"", "("}

\* new RegExp(p, 'gi') throws a SyntaxError for these.
InvalidPatterns == {"("}

\* The syntax tree of pattern p.
Tree(p) ==
    CASE p = "\\.[^.]+$" ->
           Cat(<<Lit("."), Rep(1, TRUE, NotCls({"."})), Eos>>)
      [] p = "\\[.*?\\]" ->
           Cat(<<Lit("["), Rep(0, FALSE, AnyChar), Lit("]")>>)
      [] p = "(1080p|720p|4k)" ->
           Alt(<<Word(<<"1","0","8","0","p">>), Word(<<"7","2","0","p">>),
                 Word(<<"4","k">>)>>)
      [] p = "(ptbr|eng|jap|jp)" ->
           Alt(<<Word(<<"p","t","b","r">>), Word(<<"e","n","g">>),
                 Word(<<"j","a","p">>), Word(<<"j","p">>)>>)
      [] p = "[-_.\\s]" -> Cls({"-", "_", "."} \cup WhiteSpace)
      [] p = " " -> Lit(" ")
      [] p = ""  -> Cat(<<>>)

\* new RegExp(p, 'gi'), for a p that is a regular expression.
RegExp(p) == [source |-> p, flags |-> "gi"]

\* s.replace(re, '') for a regex without the g flag: the first match only.
replace_FirstOnly(s, re) ==
    LET m == RegExpExec(Tree(re.source), s, 1)
    IN  IF m = <<>> THEN s
        ELSE SubSeq(s, 1, m[1] - 1) \o SubSeq(s, m[2], Len(s))

\* s.replace(re, '')
replace(s, re) == ReplaceFrom(Tree(re.source), s, 1, 1)

(***************************************************************************)
(* The environment: folders the picker can return, names a directory can   *)
(* hold, the caller's configuration and the identifiers a job can draw.    *)
(***************************************************************************)
\* The longest directory listing considered.
MaxFiles == 2
\* handleLoadJobs invocations that get past the folder check, per run.
MaxCalls == 2
\* Rule edits (replace-at-index or append), per run.
MaxEdits == 1
\* Folders picked, per run.
MaxSelects == 3

\* '' : a folder not selected yet, and selectDirectory() cancelled.
NoFolder == <<>>
Paths == {<<"/", "r">>, <<"/", "f">>}

n_a_mkv     == <<"a", ".", "m", "k", "v">>
n_A_MKV     == <<"A", ".", "M", "K", "V">>
n_a_txt     == <<"a", ".", "t", "x", "t">>
n_us_mp4    == <<"_", ".", "m", "p", "4">>
FileNames   == {n_a_mkv, n_A_MKV, n_a_txt, n_us_mp4}

n_Show == <<"S","h","o","w",".","S","0","1","E","0","1",".",
            "1","0","8","0","p",".","m","k","v">>
n_show == <<"s","h","o","w","_","s","0","1","e","0","1","_",
            "e","n","g",".","m","p","4">>
n_a_b  == <<"a", " ", "b", " ", ".", "m", "k", "v">>
\* The names match keys are derived from.
KeyNames == FileNames \cup {n_Show, n_show, n_a_b}

\* A directory holds no name twice; readdir fixes no order.
NoDup(l) == \A i, j \in 1..Len(l) : i # j => l[i] # l[j]
Listings == UNION {{l \in [1..k -> FileNames] : NoDup(l)} : k \in 0..MaxFiles}

\* The listings the component's directories hold while it runs.
Dirs == { <<>>, <<n_a_mkv, n_a_txt>> }

\* The rule lists k edits (or fewer) away from the list ps.
RECURSIVE RuleLists(_, _)
RuleLists(ps, k) ==
    IF k = 0 THEN {ps}
    ELSE LET before == RuleLists(ps, k - 1)
         IN  before
             \cup {[l EXCEPT ![i] = v] : l \in before, i \in 1..5, v \in TypedPatterns}
             \cup {Append(l, "") : l \in before}

\* The default rules with the first and the last exchanged.
SwappedPatterns ==
    [DEFAULT_PATTERNS EXCEPT ![1] = DEFAULT_PATTERNS[5], ![5] = DEFAULT_PATTERNS[1]]

\* The rule lists match keys are derived under: the defaults, the defaults
\* with one rule blanked, replaced by a single space or exchanged, and the
\* defaults with an empty rule added.
KeyRuleLists ==
    {DEFAULT_PATTERNS, SwappedPatterns, Append(DEFAULT_PATTERNS, "")}
    \cup {[DEFAULT_PATTERNS EXCEPT ![i] = v] : i \in 1..5, v \in {"", " "}}

\* The rule lists a match pass is run under.
PassRuleLists ==
    { DEFAULT_PATTERNS,
      [DEFAULT_PATTERNS EXCEPT ![1] = ""],
      [DEFAULT_PATTERNS EXCEPT ![5] = "("] }

\* The folders a match pass is run under: reference, foreign, output.
PassFolders ==
    { << <<"/", "r">>, <<"/", "f">>, <<"/", "o">> >>,
      << <<"/", "r">>, <<"/", "r">>, <<"/", "o", "/">> >> }

\* The `parameters` prop: lastSegmentAdjust is not given.
parameters == [firstSegmentAdjust |-> 2, noSubtitles |-> TRUE]

\* `batch-${Date.now()}-${Math.random()}`: two draws can differ or coincide.
Ids == {"batch-1-0.1", "batch-1-0.2"}

\* null and undefined: no filename, which is a sequence of characters.
Null      == <<"null">>
Undefined == <<"undefined">>
Truthy(v) == v # Undefined /\ v # Null /\ v # <<>>

\* parameters.field || d, with d the falsy value of the field's type.
OrElse(rec, field, d) == IF field \in DOMAIN rec THEN rec[field] ELSE d

(***************************************************************************)
(* buildMatchKey                                                           *)
(***************************************************************************)
\* for (const p of patterns) key = key.replace(p, '')
RECURSIVE ReplaceEach(_, _)
ReplaceEach(key, regexes) ==
    IF regexes = <<>> THEN key
    ELSE ReplaceEach(replace(key, Head(regexes)), Tail(regexes))

buildMatchKey(filename, regexes) ==
    trim(ReplaceEach(toLowerCase(filename), regexes))

\* patterns.filter(p => p.trim()): whitespace-only strings dropped as well.
FilterBoolean_Blank(ps) == SelectSeq(ps, LAMBDA p : p \notin {"", " "})

\* patterns.filter(Boolean)
FilterBoolean(ps) == SelectSeq(ps, LAMBDA p : p # "")

\* .map(p => new RegExp(p, 'gi')) throws at the first pattern that is no
\* regular expression.
CompileThrows(ps) == \E k \in 1..Len(ps) : ps[k] \in InvalidPatterns

SyntaxError(ps) ==
    LET k == CHOOSE i \in 1..Len(ps) :
                 /\ ps[i] \in InvalidPatterns
                 /\ \A j \in 1..(i - 1) : ps[j] \notin InvalidPatterns
    IN  [name |-> "SyntaxError", about |-> ps[k]]

Compile(ps) == [k \in 1..Len(ps) |-> RegExp(ps[k])]

\* buildMatchKey tabulated once for the names and the rule lists that occur.
KeyTable ==
    [regexes \in {Compile(FilterBoolean(ps)) :
                    ps \in {l \in RuleLists(DEFAULT_PATTERNS, MaxEdits)
                                     \cup KeyRuleLists \cup PassRuleLists :
                              ~CompileThrows(FilterBoolean(l))}}
       |-> [filename \in KeyNames |-> buildMatchKey(filename, regexes)]]

\* buildMatchKey(filename, regexes), read from the table where it is there.
MatchKey(filename, regexes) ==
    IF regexes \in DOMAIN KeyTable /\ filename \in KeyNames
    THEN KeyTable[regexes][filename]
    ELSE buildMatchKey(filename, regexes)

(***************************************************************************)
(* The match pass: lines 63 to 105 of handleLoadJobs.                      *)
(***************************************************************************)
videoExtensions == <<Ext_mkv, Ext_mp4, Ext_avi, Ext_mov, Ext_m4v>>

\* videoExtensions.some(ext => f.endsWith(ext)): the name not lowercased.
IsVideo_CaseSensitive(f) ==
    \E k \in 1..Len(videoExtensions) : endsWith(f, videoExtensions[k])

\* videoExtensions.some(ext => f.toLowerCase().endsWith(ext))
IsVideo(f) ==
    \E k \in 1..Len(videoExtensions) : endsWith(toLowerCase(f), videoExtensions[k])

\* files.filter(f => videoExtensions.some(...))
FilterVideos(files) == SelectSeq(files, IsVideo)

\* foreignMap.set(k, v) that keeps the value a key already has.
MapSet_FirstWins(m, k, v) ==
    IF k \in DOMAIN m THEN m ELSE [x \in DOMAIN m \cup {k} |-> IF x = k THEN v ELSE m[x]]

\* foreignMap.set(k, v)
MapSet(m, k, v) == [x \in DOMAIN m \cup {k} |-> IF x = k THEN v ELSE m[x]]

\* foreignMap.get(k) that finds nothing under the empty key.
MapGet_NoEmptyKey(m, k) == IF k # <<>> /\ k \in DOMAIN m THEN m[k] ELSE Undefined

\* foreignMap.get(k)
MapGet(m, k) == IF k \in DOMAIN m THEN m[k] ELSE Undefined

\* for (const f of foreignVideos) foreignMap.set(buildMatchKey(f, regexes), f)
RECURSIVE BuildForeignMap(_, _, _)
BuildForeignMap(m, foreignVideos, regexes) ==
    IF foreignVideos = <<>> THEN m
    ELSE BuildForeignMap(MapSet(m, MatchKey(Head(foreignVideos), regexes),
                                Head(foreignVideos)),
                         Tail(foreignVideos), regexes)

EmptyMap == [x \in {} |-> <<>>]

PreviewRow(r, match, key) ==
    [ref |-> r, foreign |-> IF Truthy(match) THEN match ELSE Null, key |-> key]

\* The work item with the output named after the foreign file.
BatchJobItem_OutputFromForeign(c, r, match, fresh) ==
    [ obj                |-> fresh.obj,
      id                 |-> fresh.id,
      refVideo           |-> c.refFolder \o <<"/">> \o r,
      foreignVideo       |-> c.foreignFolder \o <<"/">> \o match,
      outputVideo        |-> c.outputFolder \o <<"/">> \o match,
      firstSegmentAdjust |-> OrElse(parameters, "firstSegmentAdjust", 0),
      lastSegmentAdjust  |-> OrElse(parameters, "lastSegmentAdjust", 0),
      skipSubtitles      |-> OrElse(parameters, "noSubtitles", FALSE),
      status             |-> "pending" ]

\* The work item pushed for reference r matched to `match`, in call c:
\* `fresh` is the object the literal creates (obj, its identity: no other
\* object has it) and the identifier drawn for it.
BatchJobItem(c, r, match, fresh) ==
    [ obj                |-> fresh.obj,
      id                 |-> fresh.id,
      refVideo           |-> c.refFolder \o <<"/">> \o r,
      foreignVideo       |-> c.foreignFolder \o <<"/">> \o match,
      outputVideo        |-> c.outputFolder \o <<"/">> \o r,
      firstSegmentAdjust |-> OrElse(parameters, "firstSegmentAdjust", 0),
      lastSegmentAdjust  |-> OrElse(parameters, "lastSegmentAdjust", 0),
      skipSubtitles      |-> OrElse(parameters, "noSubtitles", FALSE),
      status             |-> "pending" ]

\* The loop with the row pushed inside `if (match)`.
RECURSIVE MatchLoop_RowWhenMatched(_, _, _, _, _, _)
MatchLoop_RowWhenMatched(c, refVideos, foreignMap, regexes, ids, acc) ==
    IF refVideos = <<>> THEN acc
    ELSE LET r     == Head(refVideos)
             key   == MatchKey(r, regexes)
             match == MapGet(foreignMap, key)
         IN  IF Truthy(match)
             THEN MatchLoop_RowWhenMatched(c, Tail(refVideos), foreignMap, regexes,
                      Tail(ids),
                      [previewRows |-> Append(acc.previewRows, PreviewRow(r, match, key)),
                       matched |-> Append(acc.matched,
                                          BatchJobItem(c, r, match, Head(ids)))])
             ELSE MatchLoop_RowWhenMatched(c, Tail(refVideos), foreignMap, regexes,
                      ids, acc)

\* The loop with matched.unshift(...) for matched.push(...).
RECURSIVE MatchLoop_Unshift(_, _, _, _, _, _)
MatchLoop_Unshift(c, refVideos, foreignMap, regexes, ids, acc) ==
    IF refVideos = <<>> THEN acc
    ELSE LET r     == Head(refVideos)
             key   == MatchKey(r, regexes)
             match == MapGet(foreignMap, key)
             rows  == Append(acc.previewRows, PreviewRow(r, match, key))
         IN  IF Truthy(match)
             THEN MatchLoop_Unshift(c, Tail(refVideos), foreignMap, regexes, Tail(ids),
                      [previewRows |-> rows,
                       matched |-> <<BatchJobItem(c, r, match, Head(ids))>>
                                   \o acc.matched])
             ELSE MatchLoop_Unshift(c, Tail(refVideos), foreignMap, regexes, ids,
                      [previewRows |-> rows, matched |-> acc.matched])

\* The loop with foreignMap.delete(key) after a match: a foreign file is
\* matched once.
RECURSIVE MatchLoop_Dedup(_, _, _, _, _, _)
MatchLoop_Dedup(c, refVideos, foreignMap, regexes, ids, acc) ==
    IF refVideos = <<>> THEN acc
    ELSE LET r     == Head(refVideos)
             key   == MatchKey(r, regexes)
             match == MapGet(foreignMap, key)
             rows  == Append(acc.previewRows, PreviewRow(r, match, key))
         IN  IF Truthy(match)
             THEN MatchLoop_Dedup(c, Tail(refVideos),
                      [x \in DOMAIN foreignMap \ {key} |-> foreignMap[x]],
                      regexes, Tail(ids),
                      [previewRows |-> rows,
                       matched |-> Append(acc.matched,
                                          BatchJobItem(c, r, match, Head(ids)))])
             ELSE MatchLoop_Dedup(c, Tail(refVideos), foreignMap, regexes, ids,
                      [previewRows |-> rows, matched |-> acc.matched])

\* for (const r of refVideos) { ... }: the rows and the items pushed, with
\* `ids` the objects the successive pushes create and the identifiers they
\* draw.
RECURSIVE MatchLoop(_, _, _, _, _, _)
MatchLoop(c, refVideos, foreignMap, regexes, ids, acc) ==
    IF refVideos = <<>> THEN acc
    ELSE LET r     == Head(refVideos)
             key   == MatchKey(r, regexes)
             match == MapGet(foreignMap, key)
             rows  == Append(acc.previewRows, PreviewRow(r, match, key))
         IN  IF Truthy(match)
             THEN MatchLoop(c, Tail(refVideos), foreignMap, regexes, Tail(ids),
                            [previewRows |-> rows,
                             matched |-> Append(acc.matched,
                                                BatchJobItem(c, r, match, Head(ids)))])
             ELSE MatchLoop(c, Tail(refVideos), foreignMap, regexes, ids,
                            [previewRows |-> rows, matched |-> acc.matched])

\* Lines 63 to 105 for call c, once both listings are in.
MatchPass(c, foreignFiles, ids) ==
    LET refVideos     == FilterVideos(c.refFiles)
        foreignVideos == FilterVideos(foreignFiles)
        regexes       == Compile(FilterBoolean(c.patterns))
        foreignMap    == BuildForeignMap(EmptyMap, foreignVideos, regexes)
    IN  MatchLoop(c, refVideos, foreignMap, regexes, ids,
                  [previewRows |-> <<>>, matched |-> <<>>])

\* How many items the pass of call c pushes: the identifiers it draws.
MatchCount(c, foreignFiles) ==
    Len(MatchPass(c, foreignFiles,
                  [k \in 1..Len(c.refFiles) |-> [obj |-> k, id |-> "batch"]]).matched)

(***************************************************************************)
(* The component.                                                          *)
(***************************************************************************)
VARIABLES
    refFolder, foreignFolder, outputFolder,   \* useState('')
    jobs,                                     \* useState<BatchJobItem[]>([])
    patterns,                                 \* useState(DEFAULT_PATTERNS)
    preview,                                  \* useState<any[]>([])
    calls,      \* handleLoadJobs invocations awaiting a listing, oldest first
    alerted,    \* the text of the last alert(), "" before the first
    logged,     \* the last console.error() argument
    notified,   \* the onJobsChange calls: how many, and the last argument
    queued,     \* the last onAddToQueue argument
    last,       \* how the handler that finished last ended, and on what
    started,    \* handleLoadJobs invocations past the folder check so far
    edits,      \* rule edits so far
    selects,    \* folders picked so far
    allocated,  \* work-item objects created so far
    probe       \* a buildMatchKey call: its arguments and its result

vars == <<refFolder, foreignFolder, outputFolder, jobs, patterns, preview,
          calls, alerted, logged, notified, queued, last, started, edits,
          selects, allocated, probe>>

state  == <<refFolder, foreignFolder, outputFolder, jobs, patterns, preview>>
budget == <<started, edits, selects, probe>>

NoError == [name |-> "none", about |-> ""]
NoCall  == [ pc |-> "none", n |-> 0, refFolder |-> NoFolder,
             foreignFolder |-> NoFolder, outputFolder |-> NoFolder,
             patterns |-> <<>>, listed |-> <<>>, refFiles |-> <<>> ]
\* The folders and the rules of a render before any folder or rule is there.
NoRender == [ refFolder |-> NoFolder, foreignFolder |-> NoFolder,
              outputFolder |-> NoFolder, patterns |-> <<>> ]
Idle    == [outcome |-> "none", call |-> NoCall, foreignFiles |-> <<>>,
            render |-> NoRender]
NoProbe == [filename |-> <<>>, patterns |-> <<>>, called |-> FALSE, key |-> <<>>]

Init ==
    /\ refFolder = NoFolder
    /\ foreignFolder = NoFolder
    /\ outputFolder = NoFolder
    /\ jobs = <<>>
    /\ patterns = DEFAULT_PATTERNS
    /\ preview = <<>>
    /\ calls = <<>>
    /\ alerted = ""
    /\ logged = NoError
    /\ notified = [count |-> 0, jobs |-> <<>>]
    /\ queued = <<>>
    /\ last = Idle
    /\ started = 0
    /\ edits = 0
    /\ selects = 0
    /\ allocated = 0
    /\ probe = NoProbe

Remove(seq, i) == SubSeq(seq, 1, i - 1) \o SubSeq(seq, i + 1, Len(seq))

\* handleSelectFolder(type), once selectDirectory() has resolved with path.
handleSelectFolder(type, path) ==
    /\ IF path = NoFolder
       THEN UNCHANGED <<refFolder, foreignFolder, outputFolder, selects>>
       ELSE /\ selects < MaxSelects
            /\ selects' = selects + 1
            /\ refFolder'     = IF type = "ref" THEN path ELSE refFolder
            /\ foreignFolder' = IF type = "foreign" THEN path ELSE foreignFolder
            /\ outputFolder'  = IF type \notin {"ref", "foreign"} THEN path ELSE outputFolder
    /\ UNCHANGED <<jobs, patterns, preview, calls, alerted, logged, notified,
                   queued, last, started, edits, allocated, probe>>

\* handleLoadJobs with a folder missing: lines 54 to 57.
handleLoadJobsBlocked ==
    /\ refFolder = NoFolder \/ foreignFolder = NoFolder \/ outputFolder = NoFolder
    /\ alerted' = "Please select all three folders"
    /\ last' = [Idle EXCEPT !.outcome = "blocked"]
    /\ UNCHANGED <<state, calls, logged, notified, queued, budget, allocated>>

\* The folders and the rules of the current render.
Render ==
    [ refFolder |-> refFolder, foreignFolder |-> foreignFolder,
      outputFolder |-> outputFolder, patterns |-> patterns ]

\* The n-th call handleLoadJobs makes, of a render: the rest of the call sees
\* the folders and the patterns of that render.  `listed` holds the paths the
\* call has passed to listDirectory: the first one as the call begins.
Call(ref, foreign, output, ps, n) ==
    [ pc            |-> "listRef",
      n             |-> n,
      refFolder     |-> ref,
      foreignFolder |-> foreign,
      outputFolder  |-> output,
      patterns      |-> ps,
      listed        |-> <<ref>>,
      refFiles      |-> <<>> ]

\* handleLoadJobs with a check that leaves the output folder out:
\* if (!refFolder || !foreignFolder).
handleLoadJobs_OutputUnchecked ==
    /\ refFolder # NoFolder /\ foreignFolder # NoFolder
    /\ started < MaxCalls
    /\ started' = started + 1
    /\ calls' = Append(calls, Call(refFolder, foreignFolder, outputFolder, patterns,
                                   started + 1))
    /\ UNCHANGED <<state, alerted, logged, notified, queued, last, edits, selects,
                   allocated, probe>>

\* handleLoadJobs up to its first await.
handleLoadJobs ==
    /\ refFolder # NoFolder /\ foreignFolder # NoFolder /\ outputFolder # NoFolder
    /\ started < MaxCalls
    /\ started' = started + 1
    /\ calls' = Append(calls, Call(refFolder, foreignFolder, outputFolder, patterns,
                                   started + 1))
    /\ UNCHANGED <<state, alerted, logged, notified, queued, last, edits, selects,
                   allocated, probe>>

\* A catch block that clears the preview and the pending jobs and notifies.
CatchState_Cleared(pv, js, nt) ==
    << <<>>, <<>>, [count |-> nt.count + 1, jobs |-> <<>>] >>

\* What the catch block, lines 110 to 113, leaves of the preview, the pending
\* jobs and the notifications: it touches none of them.
CatchState(pv, js, nt) == <<pv, js, nt>>

\* The catch block for call i that threw err.
Caught(i, err, how, foreignFiles) ==
    /\ logged' = err
    /\ alerted' = "Failed to load directory contents"
    /\ calls' = Remove(calls, i)
    /\ last' = [outcome |-> how, call |-> calls[i], foreignFiles |-> foreignFiles,
                render |-> Render]
    /\ LET kept == CatchState(preview, jobs, notified)
       IN  preview' = kept[1] /\ jobs' = kept[2] /\ notified' = kept[3]
    /\ UNCHANGED <<refFolder, foreignFolder, outputFolder, patterns, queued, budget,
                   allocated>>

ListError(path) == [name |-> "Error", about |-> path]

\* listDirectory(refFolder) resolves with refFiles.
ListRefResolved(i, refFiles) ==
    /\ calls[i].pc = "listRef"
    /\ calls' = [calls EXCEPT ![i].pc = "listForeign", ![i].refFiles = refFiles,
                              ![i].listed = Append(@, calls[i].foreignFolder)]
    /\ UNCHANGED <<state, alerted, logged, notified, queued, last, budget,
                   allocated>>

\* listDirectory(refFolder) rejects into an empty catch block: nothing is
\* logged and nothing is shown.
ListRefRejected_Swallowed(i) ==
    /\ calls[i].pc = "listRef"
    /\ calls' = Remove(calls, i)
    /\ last' = [outcome |-> "listFailed", call |-> calls[i], foreignFiles |-> <<>>,
                render |-> Render]
    /\ UNCHANGED <<state, alerted, logged, notified, queued, budget, allocated>>

\* listDirectory(refFolder) rejects.
ListRefRejected(i) ==
    /\ calls[i].pc = "listRef"
    /\ Caught(i, ListError(calls[i].refFolder), "listFailed", <<>>)

\* listDirectory(foreignFolder) rejects.
ListForeignRejected(i) ==
    /\ calls[i].pc = "listForeign"
    /\ Caught(i, ListError(calls[i].foreignFolder), "listFailed", <<>>)

\* Lines 63 to 109 reading the folders and the rules of the current render,
\* as through a ref, where the code reads the ones the call began with.
ListForeignResolved_ReadsCurrent(i, foreignFiles) ==
    /\ calls[i].pc = "listForeign"
    /\ LET c   == calls[i]
           cur == [c EXCEPT !.refFolder = refFolder, !.foreignFolder = foreignFolder,
                            !.outputFolder = outputFolder, !.patterns = patterns]
       IN  IF CompileThrows(FilterBoolean(cur.patterns))
           THEN Caught(i, SyntaxError(FilterBoolean(cur.patterns)), "compileFailed",
                       foreignFiles)
           ELSE \E ids \in [1..MatchCount(cur, foreignFiles) -> Ids] :
                  LET fresh == [k \in 1..Len(ids) |->
                                   [obj |-> allocated + k, id |-> ids[k]]]
                      pass  == MatchPass(cur, foreignFiles, fresh)
                  IN  /\ preview' = pass.previewRows
                      /\ allocated' = allocated + Len(ids)
                      /\ jobs' = pass.matched
                      /\ notified' = [count |-> notified.count + 1,
                                      jobs |-> pass.matched]
                      /\ calls' = Remove(calls, i)
                      /\ last' = [outcome |-> "loaded", call |-> c,
                                  foreignFiles |-> foreignFiles,
                                  render |-> Render]
                      /\ UNCHANGED <<refFolder, foreignFolder, outputFolder,
                                     patterns, alerted, logged, queued, budget>>

\* listDirectory(foreignFolder) resolves with foreignFiles: lines 63 to 109,
\* which run to the end of the call without another await.
ListForeignResolved(i, foreignFiles) ==
    /\ calls[i].pc = "listForeign"
    /\ LET c == calls[i]
       IN  IF CompileThrows(FilterBoolean(c.patterns))
           THEN Caught(i, SyntaxError(FilterBoolean(c.patterns)), "compileFailed",
                       foreignFiles)
           ELSE \E ids \in [1..MatchCount(c, foreignFiles) -> Ids] :
                  LET fresh == [k \in 1..Len(ids) |->
                                   [obj |-> allocated + k, id |-> ids[k]]]
                      pass  == MatchPass(c, foreignFiles, fresh)
                  IN  /\ preview' = pass.previewRows
                      /\ allocated' = allocated + Len(ids)
                      /\ jobs' = pass.matched
                      /\ notified' = [count |-> notified.count + 1,
                                      jobs |-> pass.matched]
                      /\ calls' = Remove(calls, i)
                      /\ last' = [outcome |-> "loaded", call |-> c,
                                  foreignFiles |-> foreignFiles,
                                  render |-> Render]
                      /\ UNCHANGED <<refFolder, foreignFolder, outputFolder,
                                     patterns, alerted, logged, queued, budget>>

\* handleAddToQueue without setJobs([]): the items handed over stay pending.
handleAddToQueue_KeepsJobs ==
    /\ IF Len(jobs) = 0
       THEN UNCHANGED <<jobs, preview, notified, queued, last>>
       ELSE /\ queued' = jobs
            /\ jobs' = jobs
            /\ preview' = <<>>
            /\ notified' = [count |-> notified.count + 1, jobs |-> <<>>]
            /\ last' = [Idle EXCEPT !.outcome = "queued"]
    /\ UNCHANGED <<refFolder, foreignFolder, outputFolder, patterns, calls,
                   alerted, logged, budget, allocated>>

\* handleAddToQueue without onJobsChange([]).
handleAddToQueue_NoNotify ==
    /\ IF Len(jobs) = 0
       THEN UNCHANGED <<jobs, preview, notified, queued, last>>
       ELSE /\ queued' = jobs
            /\ jobs' = <<>>
            /\ preview' = <<>>
            /\ notified' = notified
            /\ last' = [Idle EXCEPT !.outcome = "queued"]
    /\ UNCHANGED <<refFolder, foreignFolder, outputFolder, patterns, calls,
                   alerted, logged, budget, allocated>>

\* handleAddToQueue without setPreview([]).
handleAddToQueue_KeepsPreview ==
    /\ IF Len(jobs) = 0
       THEN UNCHANGED <<jobs, preview, notified, queued, last>>
       ELSE /\ queued' = jobs
            /\ jobs' = <<>>
            /\ preview' = preview
            /\ notified' = [count |-> notified.count + 1, jobs |-> <<>>]
            /\ last' = [Idle EXCEPT !.outcome = "queued"]
    /\ UNCHANGED <<refFolder, foreignFolder, outputFolder, patterns, calls,
                   alerted, logged, budget, allocated>>

\* handleAddToQueue.
handleAddToQueue ==
    /\ IF Len(jobs) = 0
       THEN UNCHANGED <<jobs, preview, notified, queued, last>>
       ELSE /\ queued' = jobs
            /\ jobs' = <<>>
            /\ preview' = <<>>
            /\ notified' = [count |-> notified.count + 1, jobs |-> <<>>]
            /\ last' = [Idle EXCEPT !.outcome = "queued"]
    /\ UNCHANGED <<refFolder, foreignFolder, outputFolder, patterns, calls,
                   alerted, logged, budget, allocated>>

\* onChange of rule input i that takes the rule out when the input is emptied.
ReplaceRule_RemovesEmptied(i, value) ==
    /\ edits < MaxEdits
    /\ edits' = edits + 1
    /\ patterns' = IF value = "" THEN Remove(patterns, i)
                   ELSE [patterns EXCEPT ![i] = value]
    /\ UNCHANGED <<refFolder, foreignFolder, outputFolder, jobs, preview, calls,
                   alerted, logged, notified, queued, last, started, selects,
                   allocated, probe>>

\* onChange of rule input i: copy[i] = e.target.value; setPatterns(copy).
ReplaceRule(i, value) ==
    /\ edits < MaxEdits
    /\ edits' = edits + 1
    /\ patterns' = [patterns EXCEPT ![i] = value]
    /\ UNCHANGED <<refFolder, foreignFolder, outputFolder, jobs, preview, calls,
                   alerted, logged, notified, queued, last, started, selects,
                   allocated, probe>>

\* "+ Add Regex": setPatterns([...patterns, '']).
AddRegex ==
    /\ edits < MaxEdits
    /\ edits' = edits + 1
    /\ patterns' = Append(patterns, "")
    /\ UNCHANGED <<refFolder, foreignFolder, outputFolder, jobs, preview, calls,
                   alerted, logged, notified, queued, last, started, selects,
                   allocated, probe>>

Next ==
    \/ \E type \in {"ref", "foreign", "output"}, path \in Paths \cup {NoFolder} :
          handleSelectFolder(type, path)
    \/ handleLoadJobsBlocked
    \/ handleLoadJobs
    \/ \E i \in 1..Len(calls), files \in Dirs : ListRefResolved(i, files)
    \/ \E i \in 1..Len(calls) : ListRefRejected(i)
    \/ \E i \in 1..Len(calls), files \in Dirs : ListForeignResolved(i, files)
    \/ \E i \in 1..Len(calls) : ListForeignRejected(i)
    \/ handleAddToQueue
    \/ \E i \in 1..Len(patterns), value \in TypedPatterns : ReplaceRule(i, value)
    \/ AddRegex

Spec == Init /\ [][Next]_vars

(***************************************************************************)
(* The component once its three folders have been picked, with one more    *)
(* pick to come: passes that overlap, and folders and rules that change    *)
(* while a listing is awaited.                                             *)
(***************************************************************************)
FlightInit ==
    /\ refFolder = <<"/", "r">>
    /\ foreignFolder = <<"/", "f">>
    /\ outputFolder = <<"/", "r">>
    /\ jobs = <<>>
    /\ patterns = DEFAULT_PATTERNS
    /\ preview = <<>>
    /\ calls = <<>>
    /\ alerted = ""
    /\ logged = NoError
    /\ notified = [count |-> 0, jobs |-> <<>>]
    /\ queued = <<>>
    /\ last = Idle
    /\ started = 0
    /\ edits = 0
    /\ selects = MaxSelects - 1
    /\ allocated = 0
    /\ probe = NoProbe

FlightNext ==
    \/ \E type \in {"ref", "foreign", "output"}, path \in Paths \cup {NoFolder} :
          handleSelectFolder(type, path)
    \/ handleLoadJobs
    \/ \E i \in 1..Len(calls), files \in Dirs : ListRefResolved(i, files)
    \/ \E i \in 1..Len(calls) : ListRefRejected(i)
    \/ \E i \in 1..Len(calls), files \in Dirs : ListForeignResolved(i, files)
    \/ \E i \in 1..Len(calls) : ListForeignRejected(i)
    \/ handleAddToQueue
    \/ \E i \in 1..Len(patterns), value \in TypedPatterns : ReplaceRule(i, value)
    \/ AddRegex

FlightSpec == FlightInit /\ [][FlightNext]_vars

(***************************************************************************)
(* The match pass on its own: a call of handleLoadJobs that has its        *)
(* reference listing and awaits the foreign one, for every listing, rule   *)
(* list and folder choice considered.                                      *)
(***************************************************************************)
PassInit ==
    /\ \E f \in PassFolders, ps \in PassRuleLists, refFiles \in Listings :
          /\ refFolder = f[1]
          /\ foreignFolder = f[2]
          /\ outputFolder = f[3]
          /\ patterns = ps
          /\ calls = << [Call(f[1], f[2], f[3], ps, 1) EXCEPT
                            !.pc = "listForeign", !.refFiles = refFiles,
                            !.listed = <<f[1], f[2]>>] >>
    /\ jobs = <<>>
    /\ preview = <<>>
    /\ alerted = ""
    /\ logged = NoError
    /\ notified = [count |-> 0, jobs |-> <<>>]
    /\ queued = <<>>
    /\ last = Idle
    /\ started = 1
    /\ edits = 0
    /\ selects = 0
    /\ allocated = 0
    /\ probe = NoProbe

PassNext ==
    \/ \E i \in 1..Len(calls), files \in Listings : ListForeignResolved(i, files)
    \/ \E i \in 1..Len(calls) : ListForeignRejected(i)
    \/ handleAddToQueue

PassSpec == PassInit /\ [][PassNext]_vars

(***************************************************************************)
(* buildMatchKey on its own, for every name and rule list considered.      *)
(***************************************************************************)
KeyInit ==
    /\ refFolder = NoFolder
    /\ foreignFolder = NoFolder
    /\ outputFolder = NoFolder
    /\ jobs = <<>>
    /\ preview = <<>>
    /\ calls = <<>>
    /\ alerted = ""
    /\ logged = NoError
    /\ notified = [count |-> 0, jobs |-> <<>>]
    /\ queued = <<>>
    /\ last = Idle
    /\ started = 0
    /\ edits = 0
    /\ selects = 0
    /\ allocated = 0
    /\ \E f \in KeyNames, ps \in KeyRuleLists :
          /\ patterns = ps
          /\ probe = [NoProbe EXCEPT !.filename = f, !.patterns = ps]

\* const regexes = patterns.filter(Boolean).map(...); buildMatchKey(f, regexes)
CallBuildMatchKey ==
    /\ ~probe.called
    /\ ~CompileThrows(FilterBoolean(probe.patterns))
    /\ probe' = [probe EXCEPT
                   !.called = TRUE,
                   !.key = buildMatchKey(probe.filename,
                                         Compile(FilterBoolean(probe.patterns)))]
    /\ UNCHANGED <<state, calls, alerted, logged, notified, queued, last,
                   started, edits, selects, allocated>>

KeyNext == CallBuildMatchKey

KeySpec == KeyInit /\ [][KeyNext]_vars

(***************************************************************************)
(* Properties of a match pass.                                             *)
(***************************************************************************)
Range(seq) == {seq[k] : k \in 1..Len(seq)}

\* The names of a listing that carry a video extension, spelled out.
HasVideoExtension(f) ==
    LET low == toLowerCase(f)
        ext == IF Len(low) >= 4 THEN SubSeq(low, Len(low) - 3, Len(low)) ELSE <<>>
    IN  ext \in {Ext_mkv, Ext_mp4, Ext_avi, Ext_mov, Ext_m4v}

\* The pass that finished last completed without error, and the preview and
\* the pending jobs are still the ones it wrote.
Loaded == last.outcome = "loaded"

\* The key of name f under the rules of the call that finished last.
KeyUnder(f) == MatchKey(f, Compile(FilterBoolean(last.call.patterns)))

LoadedRefVideos     == FilterVideos(last.call.refFiles)
LoadedForeignVideos == FilterVideos(last.foreignFiles)
MatchedRows         == SelectSeq(preview, LAMBDA row : row.foreign # Null)

\* C1: after a match pass that completes without error the preview holds
\* exactly one row per filtered reference video, in the order of the filtered
\* reference list, each row with that reference filename and its match key,
\* whatever matched and however many foreign videos there are.
C1_OneRowPerReferenceVideo ==
    Loaded =>
        /\ Len(preview) = Len(LoadedRefVideos)
        /\ \A k \in 1..Len(preview) :
              /\ preview[k].ref = LoadedRefVideos[k]
              /\ preview[k].key = KeyUnder(LoadedRefVideos[k])

\* A pass over two reference videos of which one matched and one did not,
\* with more than no foreign video.
C1_Witness ==
    /\ Loaded
    /\ Len(preview) = 2
    /\ preview[1].foreign # Null
    /\ preview[2].foreign = Null
    /\ Len(LoadedForeignVideos) = 2

\* C2: the work items of a pass are an order-preserving filter of its rows:
\* one item for each row whose foreign match is present, none for a row
\* whose match is absent, in the order of the rows.
C2_JobsFilterRowsInOrder ==
    Loaded =>
        /\ Len(jobs) = Len(MatchedRows)
        /\ \A j \in 1..Len(jobs) :
              /\ endsWith(jobs[j].refVideo, <<"/">> \o MatchedRows[j].ref)
              /\ endsWith(jobs[j].foreignVideo, <<"/">> \o MatchedRows[j].foreign)

\* A pass whose first row has no match and whose second row has one: the
\* only work item belongs to the second row.
C2_Witness ==
    /\ Loaded
    /\ Len(preview) = 2
    /\ preview[1].foreign = Null
    /\ preview[2].foreign # Null
    /\ Len(jobs) = 1

\* C3: a row has a foreign match exactly when some filtered foreign video has
\* a key equal to the row's key, the empty key included; the match is then a
\* filtered foreign video with that key; and with no foreign video every row
\* is unmatched and no work item is produced.
C3_MatchIffEqualKey ==
    Loaded =>
        /\ \A k \in 1..Len(preview) :
              /\ preview[k].foreign # Null
                    <=> \E f \in Range(LoadedForeignVideos) : KeyUnder(f) = preview[k].key
              /\ preview[k].foreign # Null
                    => /\ preview[k].foreign \in Range(LoadedForeignVideos)
                       /\ KeyUnder(preview[k].foreign) = preview[k].key
        /\ LoadedForeignVideos = <<>>
              => /\ jobs = <<>>
                 /\ \A k \in 1..Len(preview) : preview[k].foreign = Null

\* A row whose key is the empty string, matched to a foreign video whose key
\* is the empty string too.
C3_Witness ==
    /\ Loaded
    /\ \E k \in 1..Len(preview) :
          /\ preview[k].key = <<>>
          /\ preview[k].foreign # Null
          /\ Len(jobs) >= 1

\* C4: last write wins: a row is matched to the filtered foreign video that
\* comes last in the foreign listing among those with the row's key.
C4_LastForeignWins ==
    Loaded =>
        \A k \in 1..Len(preview) :
            preview[k].foreign # Null =>
               \E i \in 1..Len(LoadedForeignVideos) :
                  /\ LoadedForeignVideos[i] = preview[k].foreign
                  /\ \A j \in (i + 1)..Len(LoadedForeignVideos) :
                        KeyUnder(LoadedForeignVideos[j]) # preview[k].key

\* Two foreign videos with one key, "a.mkv" before "A.MKV": both reference
\* videos with that key are matched to "A.MKV", the later one.
C4_Witness ==
    /\ Loaded
    /\ last.foreignFiles = <<n_a_mkv, n_A_MKV>>
    /\ Len(preview) = 2
    /\ \A k \in 1..2 : preview[k].foreign = n_A_MKV

(***************************************************************************)
(* Properties of buildMatchKey.                                            *)
(***************************************************************************)
\* The rules compiled for the buildMatchKey call.
ProbeRegexes == Compile(FilterBoolean(probe.patterns))

\* s after rules 1 to n of regexes, each applied to what the one before left.
RECURSIVE AppliedThrough(_, _, _)
AppliedThrough(s, regexes, n) ==
    IF n = 0 THEN s
    ELSE replace(AppliedThrough(s, regexes, n - 1), regexes[n])

key_shows01e01    == <<"s","h","o","w","s","0","1","e","0","1">>
key_shows01e01mkv == key_shows01e01 \o <<"m","k","v">>

\* C5: the key of a filename is its lowercase form with every compiled rule
\* applied in declaration order, each to the output of the one before, as a
\* removal of every occurrence, then trimmed; after the default rules no
\* separator character is left; the default rules give "shows01e01" for both
\* "Show.S01E01.1080p.mkv" and "show_s01e01_eng.mp4"; and the order counts:
\* with the first and the last default rule exchanged "Show.S01E01.1080p.mkv"
\* gives "shows01e01mkv".
C5_KeyIsOrderedGlobalRemoval ==
    probe.called =>
        /\ probe.key = trim(AppliedThrough(toLowerCase(probe.filename),
                                           ProbeRegexes, Len(ProbeRegexes)))
        /\ probe.patterns = DEFAULT_PATTERNS =>
              /\ \A k \in 1..Len(probe.key) :
                    probe.key[k] \notin {"-", "_", ".", " ", "\t"}
              /\ probe.filename \in {n_Show, n_show} => probe.key = key_shows01e01
        /\ (probe.patterns = SwappedPatterns /\ probe.filename = n_Show) =>
              probe.key = key_shows01e01mkv

\* The key of "Show.S01E01.1080p.mkv" under the exchanged rules: not the key
\* the default order gives.
C5_Witness ==
    /\ probe.called
    /\ probe.filename = n_Show
    /\ probe.patterns = SwappedPatterns
    /\ probe.key = key_shows01e01mkv
    /\ probe.key # key_shows01e01

\* The rule list ps without its empty strings.
RECURSIVE WithoutEmpty(_)
WithoutEmpty(ps) ==
    IF ps = <<>> THEN <<>>
    ELSE IF Head(ps) = "" THEN WithoutEmpty(Tail(ps))
         ELSE <<Head(ps)>> \o WithoutEmpty(Tail(ps))

\* The rule list ps without its blank strings: the empty one and the ones
\* made of whitespace only.
RECURSIVE WithoutBlank(_)
WithoutBlank(ps) ==
    IF ps = <<>> THEN <<>>
    ELSE IF Head(ps) \in {"", " "} THEN WithoutBlank(Tail(ps))
         ELSE <<Head(ps)>> \o WithoutBlank(Tail(ps))

\* The key of the probed filename under the raw rule list ps, every rule of
\* ps compiled and applied.
KeyWithRules(ps) ==
    LET regexes == [k \in 1..Len(ps) |-> RegExp(ps[k])]
    IN  trim(AppliedThrough(toLowerCase(probe.filename), regexes, Len(regexes)))

\* C8 as stated: a blank rule, empty or whitespace-only, is dropped before
\* compilation and never applied: the key under a rule list with blank
\* entries is the key under the list with those entries removed.
C8_BlankRulesNeverApplied ==
    probe.called => probe.key = KeyWithRules(WithoutBlank(probe.patterns))

\* C8: an empty rule string is dropped before compilation and never applied:
\* the key under a rule list with empty entries is the key under the list
\* with those entries removed, and is empty only if that one is; a
\* whitespace-only rule is not dropped: it is compiled and applied, so a rule
\* " " leaves no space in the key.
C8_EmptyRulesNeverApplied ==
    probe.called =>
        /\ probe.key = KeyWithRules(WithoutEmpty(probe.patterns))
        /\ \A k \in 1..Len(ProbeRegexes) : ProbeRegexes[k].source # ""
        /\ (\E k \in 1..Len(probe.patterns) : probe.patterns[k] = " ")
              => \A j \in 1..Len(probe.key) : probe.key[j] # " "

\* "a b .mkv" under the default rules with the last one, which removes the
\* separators, emptied: the inner space stays, and the key is not empty.
C8_Witness ==
    /\ probe.called
    /\ probe.patterns = [DEFAULT_PATTERNS EXCEPT ![5] = ""]
    /\ probe.filename = n_a_b
    /\ probe.key = <<"a", " ", "b">>

(***************************************************************************)
(* Properties of a match pass whose rules do not compile.                  *)
(***************************************************************************)
\* A step in which a call of handleLoadJobs ends in the catch block because
\* one of its rules is no regular expression.
CompileFailedStep ==
    /\ Len(calls') = Len(calls) - 1
    /\ last'.outcome = "compileFailed"
    /\ CompileThrows(FilterBoolean(last'.call.patterns))

\* C6: a match pass whose rule compilation fails writes neither the preview
\* nor the pending jobs and emits no change notification: all three are after
\* the pass what they were before it.
C6_CompileFailureWritesNothing ==
    [][CompileFailedStep => UNCHANGED <<preview, jobs, notified, queued>>]_vars

\* A pass failed on its rules after an earlier pass had filled the preview
\* and the pending jobs: both are still there, and the only notification is
\* the earlier pass's.
C6_Witness ==
    /\ last.outcome = "compileFailed"
    /\ Len(preview) > 0
    /\ Len(jobs) > 0
    /\ notified = [count |-> 1, jobs |-> jobs]

\* C7 as stated: when a rule fails to compile the error reported is a
\* CompileError that carries the index of the failing rule, and what the user
\* is shown differs from what a failed directory listing shows.
C7_CompileErrorNamesRuleIndex ==
    last.outcome = "compileFailed" =>
        /\ logged.name = "CompileError"
        /\ "index" \in DOMAIN logged
        /\ alerted # "Failed to load directory contents"

(***************************************************************************)
(* Properties of the filtered listings and of the paths of a work item.    *)
(***************************************************************************)
\* The names of listing l that carry a video extension, in any letter case.
VideoNames(l) == {f \in Range(l) : HasVideoExtension(f)}

\* C9: a listed name without one of the extensions .mkv .mp4 .avi .mov .m4v,
\* compared without regard to case, is in no preview row, on either side, and
\* in no path of a work item, and lends no key to the foreign lookup: a row is
\* matched only on the key of a foreign name that carries such an extension;
\* a name that carries one, in any letter case, is kept: a reference name has
\* its row, and a foreign name matches the rows with its key.
C9_OnlyVideoExtensions ==
    Loaded =>
        /\ \A k \in 1..Len(preview) :
              /\ HasVideoExtension(preview[k].ref)
              /\ preview[k].foreign # Null
                    <=> \E f \in VideoNames(last.foreignFiles) :
                           KeyUnder(f) = preview[k].key
              /\ preview[k].foreign # Null => HasVideoExtension(preview[k].foreign)
        /\ \A j \in 1..Len(jobs) :
              /\ HasVideoExtension(jobs[j].refVideo)
              /\ HasVideoExtension(jobs[j].foreignVideo)
              /\ HasVideoExtension(jobs[j].outputVideo)
        /\ \A f \in VideoNames(last.call.refFiles) :
              \E k \in 1..Len(preview) : preview[k].ref = f

\* "a.txt" listed on both sides and "A.MKV" on the reference side: the one
\* row is the one of "A.MKV", unmatched although "a.txt" has its key.
C9_Witness ==
    /\ Loaded
    /\ last.call.patterns = DEFAULT_PATTERNS
    /\ last.call.refFiles = <<n_a_txt, n_A_MKV>>
    /\ last.foreignFiles = <<n_a_txt>>
    /\ KeyUnder(n_a_txt) = KeyUnder(n_A_MKV)
    /\ Len(preview) = 1
    /\ preview[1].ref = n_A_MKV
    /\ preview[1].foreign = Null
    /\ jobs = <<>>

\* C10: the work item of reference name r matched to foreign name m has
\* refVideo = refFolder + "/" + r, foreignVideo = foreignFolder + "/" + m and
\* outputVideo = outputFolder + "/" + r, with the folders of the call and
\* nothing normalised.
C10_PathsAreConcatenations ==
    Loaded =>
        /\ Len(jobs) = Len(MatchedRows)
        /\ \A j \in 1..Len(jobs) :
              LET r == MatchedRows[j].ref
                  m == MatchedRows[j].foreign
              IN  /\ jobs[j].refVideo = last.call.refFolder \o <<"/">> \o r
                  /\ jobs[j].foreignVideo = last.call.foreignFolder \o <<"/">> \o m
                  /\ jobs[j].outputVideo = last.call.outputFolder \o <<"/">> \o r

\* "a.mkv" matched to "A.MKV" with the output folder "/o/": the output is
\* "/o//a.mkv", named after the reference file, the two slashes kept.
C10_Witness ==
    /\ Loaded
    /\ Len(jobs) = 1
    /\ preview[1].ref = n_a_mkv
    /\ preview[1].foreign = n_A_MKV
    /\ jobs[1].refVideo = <<"/", "r", "/">> \o n_a_mkv
    /\ jobs[1].foreignVideo = <<"/", "r", "/">> \o n_A_MKV
    /\ jobs[1].outputVideo = <<"/", "o", "/", "/">> \o n_a_mkv

(***************************************************************************)
(* Properties of the component's handlers.                                 *)
(***************************************************************************)
PleaseSelect == "Please select all three folders"
FailedToLoad == "Failed to load directory contents"

\* A step of handleLoadJobs that ends at the folder check with its alert (a
\* second such step in a row leaves every variable as it is).
BlockedStep == alerted' = PleaseSelect /\ alerted # PleaseSelect

\* C11: a match pass requested while one of the three folders is unset is
\* blocked entirely: the step requests no listing (no call is begun, and no
\* call in flight ever has an unset folder), it tells the user, and it leaves
\* the preview, the pending jobs, the rules, the folders and the
\* notifications as they are; a request made once the three folders are set
\* goes on to its listings.
C11_UnsetFolderBlocksThePass ==
    [][ /\ BlockedStep =>
              /\ refFolder = NoFolder \/ foreignFolder = NoFolder
                                      \/ outputFolder = NoFolder
              /\ calls' = calls
              /\ UNCHANGED <<preview, jobs, patterns, refFolder, foreignFolder,
                             outputFolder, notified, queued, logged>>
        /\ \A i \in 1..Len(calls') :
              /\ calls'[i].refFolder # NoFolder
              /\ calls'[i].foreignFolder # NoFolder
              /\ calls'[i].outputFolder # NoFolder
        /\ Len(calls') > Len(calls) =>
              refFolder # NoFolder /\ foreignFolder # NoFolder
                                   /\ outputFolder # NoFolder
      ]_vars

\* A request was blocked, and a later one, made with the three folders set,
\* went through its listings and produced a work item: the blocked request's
\* alert is still the last one shown.
C11_Witness ==
    /\ alerted = PleaseSelect
    /\ last.outcome = "loaded"
    /\ Len(jobs) > 0
    /\ started = 1

\* A step in which a call of handleLoadJobs ends because a listing failed.
ListFailedStep ==
    /\ Len(calls') = Len(calls) - 1
    /\ last'.outcome = "listFailed"

\* C12: when the listing of either folder fails, the foreign one after the
\* reference one succeeded included, the pass ends there: the failure is
\* logged and shown to the user, and the pass writes neither the preview nor
\* the pending jobs and emits no change notification; the handler is free for
\* another request.
C12_ListingFailureWritesNothing ==
    [][ ListFailedStep =>
          /\ UNCHANGED <<preview, jobs, notified, queued>>
          /\ alerted' = FailedToLoad
          /\ logged'.name = "Error"
          /\ logged'.about \in {last'.call.refFolder, last'.call.foreignFolder}
          /\ \A i \in 1..Len(calls') : calls'[i].n # last'.call.n
      ]_vars

\* The foreign listing failed after the reference listing had succeeded, in a
\* pass requested after an earlier one had filled the preview and the pending
\* jobs: both are still the earlier pass's, with its notification the only one.
C12_Witness ==
    /\ last.outcome = "listFailed"
    /\ last.call.pc = "listForeign"
    /\ last.call.refFiles # <<>>
    /\ last.call.n = 2
    /\ alerted = FailedToLoad
    /\ Len(preview) > 0
    /\ Len(jobs) > 0
    /\ notified = [count |-> 1, jobs |-> jobs]

\* A step in which onJobsChange is called and no call of handleLoadJobs
\* ends: the step of handleAddToQueue that hands the pending items over.
QueueStep ==
    /\ notified'.count = notified.count + 1
    /\ calls' = calls

\* C13: handleAddToQueue hands over exactly the pending work items, and only
\* when there are some; after it the pending list and the preview are empty;
\* onAddToQueue is called by no other step; and no work item is handed over
\* twice: the items handed over are objects created after every object of
\* the hand-over before, and no pending item is an object handed over.
C13_HandedOverOnce ==
    [][ /\ QueueStep =>
              /\ jobs # <<>>
              /\ queued' = jobs
              /\ jobs' = <<>>
              /\ preview' = <<>>
              /\ \A a \in Range(jobs), b \in Range(queued) : a.obj > b.obj
        /\ queued' # queued => QueueStep
        /\ \A a \in Range(jobs'), b \in Range(queued') : a.obj > b.obj
      ]_vars

\* The second hand-over: the item handed over is the second object created,
\* and nothing is left pending or previewed.
C13_Witness ==
    /\ last.outcome = "queued"
    /\ notified.count = 4
    /\ Len(queued) = 1
    /\ queued[1].obj = 2
    /\ jobs = <<>>
    /\ preview = <<>>

\* The work items the component holds or has handed over last.
ItemsCreated == jobs \o queued

\* C14 as stated: no two work items ever created, in one pass or in two,
\* carry the same id.
C14_IdsAreUnique ==
    \A i, j \in 1..Len(ItemsCreated) :
        ItemsCreated[i].obj # ItemsCreated[j].obj
            => ItemsCreated[i].id # ItemsCreated[j].id

\* C15: the rules change by append and by replace-at-index only: a step that
\* changes them either adds one empty rule at the end and leaves the others
\* where they are, or changes the rule at one index and keeps the length; a
\* step of a match pass, of a folder selection or of add-to-queue leaves the
\* rules as they are; and the rules are never fewer than the five defaults.
C15_RulesAppendOrReplaceOnly ==
    [][ /\ patterns' # patterns =>
              /\ \/ patterns' = Append(patterns, "")
                 \/ /\ Len(patterns') = Len(patterns)
                    /\ \E i \in 1..Len(patterns) :
                          \A k \in 1..Len(patterns) :
                              k # i => patterns'[k] = patterns[k]
              /\ UNCHANGED <<refFolder, foreignFolder, outputFolder, jobs, preview,
                             calls, notified, queued, alerted, logged>>
        /\ Len(patterns') >= Len(patterns)
        /\ Len(patterns') >= Len(DEFAULT_PATTERNS)
      ]_vars

\* A rule replaced by "(", which is no regular expression: the rule list
\* holds it, at its index, with the other four rules as they were.
C15_Witness ==
    /\ patterns[5] = "("
    /\ Len(patterns) = 5
    /\ \A k \in 1..4 : patterns[k] = DEFAULT_PATTERNS[k]
    /\ edits = 1

\* A step in which a call of handleLoadJobs ends with its results written.
LoadedStep ==
    /\ Len(calls') = Len(calls) - 1
    /\ last'.outcome = "loaded"

\* C16: the change notifications track the pending list: the step of a pass
\* that writes its results, and every step that changes the pending list,
\* calls onJobsChange once with the list as it is after the step; so from the
\* first call on the list passed last is the pending list; and a pass that
\* fails or is blocked calls nothing.
C16_NotificationsTrackPendingList ==
    [][ /\ (LoadedStep \/ jobs' # jobs) =>
              /\ notified'.count = notified.count + 1
              /\ notified'.jobs = jobs'
        /\ notified'.count > 0 => notified'.jobs = jobs'
        /\ notified' # notified => LoadedStep \/ QueueStep
        /\ (ListFailedStep \/ CompileFailedStep \/ BlockedStep) =>
              notified' = notified
      ]_vars

\* A pass, a hand-over and a second pass: three notifications, the last one
\* with the work item the second pass created, which is the pending list.
C16_Witness ==
    /\ last.outcome = "loaded"
    /\ queued # <<>>
    /\ notified.count = 3
    /\ Len(jobs) = 1
    /\ notified.jobs = jobs

\* C17: in every state the component reaches the preview and the pending
\* list are of one pass: the pending items are, one for one and in order, the
\* preview rows that have a foreign match, with the row's reference name and
\* foreign name in their paths; so nothing is pending with an empty preview.
C17_PendingListMirrorsPreview ==
    /\ Len(jobs) = Len(MatchedRows)
    /\ \A j \in 1..Len(jobs) :
          /\ endsWith(jobs[j].refVideo, <<"/">> \o MatchedRows[j].ref)
          /\ endsWith(jobs[j].foreignVideo, <<"/">> \o MatchedRows[j].foreign)
          /\ endsWith(jobs[j].outputVideo, <<"/">> \o MatchedRows[j].ref)
    /\ jobs # <<>> => preview # <<>>
    /\ jobs # <<>> \/ preview # <<>> => last.outcome # "queued"

\* Two passes overlap: the second one requested has written a matched row and
\* its work item while the first one still awaits a listing.
C17_Witness ==
    /\ Len(calls) = 1
    /\ calls[1].n = 1
    /\ last.outcome = "loaded"
    /\ last.call.n = 2
    /\ Len(preview) = 1
    /\ preview[1].foreign # Null
    /\ Len(jobs) = 1

\* C18: a pass works on the folders and the rules of the render it was
\* requested in: the two paths it lists are that render's reference and
\* foreign folder, the paths of its work items are built from those same
\* folders and that render's output folder, and its rows carry the keys its
\* reference videos have under that render's rules, whatever folders and
\* rules the component holds when the pass ends.
C18_PassWorksOnItsSnapshot ==
    Loaded =>
        /\ last.call.listed = <<last.call.refFolder, last.call.foreignFolder>>
        /\ Len(preview) = Len(LoadedRefVideos)
        /\ \A k \in 1..Len(preview) :
              /\ preview[k].ref = LoadedRefVideos[k]
              /\ preview[k].key = KeyUnder(LoadedRefVideos[k])
              /\ preview[k].foreign # Null
                    <=> \E f \in Range(LoadedForeignVideos) :
                           KeyUnder(f) = preview[k].key
        /\ \A j \in 1..Len(jobs) :
              /\ jobs[j].refVideo
                    = last.call.listed[1] \o <<"/">> \o MatchedRows[j].ref
              /\ jobs[j].foreignVideo
                    = last.call.listed[2] \o <<"/">> \o MatchedRows[j].foreign
              /\ jobs[j].outputVideo
                    = last.call.outputFolder \o <<"/">> \o MatchedRows[j].ref

\* While a pass requested under the default rules awaited a listing, the
\* first rule was emptied and another reference folder was picked: the pass
\* ended with the key "a" for "a.mkv", which the rules of the render it ended
\* in give the key "amkv", and with the reference folder it had listed in the
\* path of its work item.
C18_Witness ==
    /\ Loaded
    /\ last.call.patterns = DEFAULT_PATTERNS
    /\ last.render.patterns = [DEFAULT_PATTERNS EXCEPT ![1] = ""]
    /\ last.render.refFolder # last.call.refFolder
    /\ Len(preview) = 1
    /\ preview[1].ref = n_a_mkv
    /\ preview[1].key = <<"a">>
    /\ MatchKey(n_a_mkv, Compile(FilterBoolean(last.render.patterns)))
          = <<"a", "m", "k", "v">>
    /\ Len(jobs) = 1
    /\ jobs[1].refVideo = last.call.refFolder \o <<"/">> \o n_a_mkv

\* The paths of the work items js, in order.
PathsOf(js) ==
    [j \in 1..Len(js) |-> <<js[j].refVideo, js[j].foreignVideo, js[j].outputVideo>>]

\* C19 as stated: when two passes overlap and both succeed, what remains is
\* the result of the pass requested last: a pass that ends after a pass
\* requested later than it has written its results leaves the preview rows
\* and the pending items' paths as that later pass wrote them.
C19_LastRequestedPassWins ==
    [][ (LoadedStep /\ last.outcome = "loaded" /\ last'.call.n < last.call.n) =>
            /\ preview' = preview
            /\ PathsOf(jobs') = PathsOf(jobs)
      ]_vars

\* The positions of the filtered reference videos whose key some filtered
\* foreign video has.
KeyedRefs ==
    {k \in 1..Len(LoadedRefVideos) :
        \E f \in Range(LoadedForeignVideos) : KeyUnder(f) = KeyUnder(LoadedRefVideos[k])}

\* C20: reference videos that share a key are not merged: every filtered
\* reference video whose key the foreign lookup holds has a work item of its
\* own, and the output paths (and the reference paths) of the items of one
\* pass differ pairwise, the reference listing holding no name twice.
C20_RefCollisionsKeepTheirItems ==
    Loaded =>
        /\ Len(jobs) = Cardinality(KeyedRefs)
        /\ \A k \in KeyedRefs :
              \E j \in 1..Len(jobs) :
                  jobs[j].refVideo = last.call.refFolder \o <<"/">> \o LoadedRefVideos[k]
        /\ \A i, j \in 1..Len(jobs) :
              i # j => /\ jobs[i].outputVideo # jobs[j].outputVideo
                       /\ jobs[i].refVideo # jobs[j].refVideo

\* Two reference videos with one key and a single foreign video: two work
\* items with the same foreign path and different output paths.
C20_Witness ==
    /\ Loaded
    /\ Len(LoadedForeignVideos) = 1
    /\ Len(jobs) = 2
    /\ preview[1].key = preview[2].key
    /\ jobs[1].foreignVideo = jobs[2].foreignVideo
    /\ jobs[1].outputVideo # jobs[2].outputVideo

====
